---- MODULE Spec2Model ----
(***************************************************************************)
(* A model of src/app.py: the WhatsApp webhook, its in-memory session      *)
(* store, the rule-based intent router, the admin operations and the AI    *)
(* fallback.                                                               *)
(*                                                                         *)
(* Text is a sequence of one-character strings, so that strip, the         *)
(* whitespace collapse, lower(), upper(), split() and slicing are computed *)
(* character by character as Python computes them.  The fixed parts of a   *)
(* reply (the f-string literals) are single multi-character strings inside *)
(* such a sequence; the interpolated parts are the characters themselves.  *)
(*                                                                         *)
(* Python objects live in 'heap' under an object id; SESSIONS maps a       *)
(* sender to the id of its session dict, and a request keeps the id it     *)
(* got from session_for even when the store no longer holds it.            *)
(***************************************************************************)
EXTENDS Integers, Sequences, FiniteSets, TLC

VARIABLES
    SESSIONS,        \* app.py:39   sender -> object id of its session dict
    heap,            \* object id -> session dict (Python's references)
    clock,           \* the last value time.time() returned, in seconds
    ADMIN_PASSCODE,  \* app.py:21   read from the environment at import
    AI,              \* app.py:81   [provider, client] of build_ai_client()
    log,             \* the requests handled so far, with their replies
    th               \* the request threads of the threaded server

vars == <<SESSIONS, heap, clock, ADMIN_PASSCODE, AI, log, th>>

----------------------------------------------------------------------------
(* Bounds of the model.                                                    *)

\* requests handled in one behaviour of Spec
MaxReq == 3
\* requests handled in one behaviour of SpecRouter
MaxRouterReq == 2
\* seconds the clock may advance in one behaviour
MaxTick == 1

\* the clock when the process starts: 1699999999 % 100000 = 99999, so one
\* second later the ticket number wraps to 00000
T0 == 1699999999

----------------------------------------------------------------------------
(* Characters and strings.                                                 *)

UpperAlpha ==
    <<"A", "B", "C", "D", "E", "F", "G", "H", "I", "J", "K", "L", "M",
      "N", "O", "P", "Q", "R", "S", "T", "U", "V", "W", "X", "Y", "Z">>

LowerAlpha ==
    <<"a", "b", "c", "d", "e", "f", "g", "h", "i", "j", "k", "l", "m",
      "n", "o", "p", "q", "r", "s", "t", "u", "v", "w", "x", "y", "z">>

\* the whitespace characters of the model: what \s and str.strip() match
IsSpace(c) == c \in {" ", "\t", "\n"}

\* str.lower() on one character
LowerChar(c) ==
    IF \E i \in 1..26 : UpperAlpha[i] = c
    THEN LowerAlpha[CHOOSE i \in 1..26 : UpperAlpha[i] = c]
    ELSE c

\* str.upper() on one character
UpperChar(c) ==
    IF \E i \in 1..26 : LowerAlpha[i] = c
    THEN UpperAlpha[CHOOSE i \in 1..26 : LowerAlpha[i] = c]
    ELSE c

lower(s) == [i \in 1..Len(s) |-> LowerChar(s[i])]

upper(s) == [i \in 1..Len(s) |-> UpperChar(s[i])]

\* s[n:]
Drop(s, n) == IF n >= Len(s) THEN <<>> ELSE SubSeq(s, n + 1, Len(s))

RECURSIVE lstrip(_)
lstrip(s) ==
    IF s # <<>> /\ IsSpace(Head(s)) THEN lstrip(Tail(s)) ELSE s

RECURSIVE rstrip(_)
rstrip(s) ==
    IF s # <<>> /\ IsSpace(s[Len(s)])
    THEN rstrip(SubSeq(s, 1, Len(s) - 1))
    ELSE s

\* str.strip()
strip(s) == rstrip(lstrip(s))

\* re.sub(r"\s+", " ", s): every maximal run of whitespace becomes one space
RECURSIVE collapse(_)
collapse(s) ==
    IF s = <<>> THEN <<>>
    ELSE IF IsSpace(Head(s))
         THEN <<" ">> \o collapse(lstrip(s))
         ELSE <<Head(s)>> \o collapse(Tail(s))

\* app.py:85-86
normalize(text) == lower(collapse(strip(text)))

\* s.startswith(p)
startswith(s, p) == Len(s) >= Len(p) /\ SubSeq(s, 1, Len(p)) = p

\* the length of the leading run of non-whitespace characters of s
RECURSIVE WordLen(_)
WordLen(s) ==
    IF s = <<>> \/ IsSpace(Head(s)) THEN 0 ELSE 1 + WordLen(Tail(s))

\* str.split() without arguments: the maximal runs of non-whitespace
RECURSIVE split(_)
split(s) ==
    LET r == lstrip(s)
    IN  IF r = <<>> THEN <<>>
        ELSE <<SubSeq(r, 1, WordLen(r))>> \o split(Drop(r, WordLen(r)))

\* the position of the first c in s, or 0
RECURSIVE IndexOf(_, _)
IndexOf(s, c) ==
    IF s = <<>> THEN 0
    ELSE IF Head(s) = c THEN 1
    ELSE LET k == IndexOf(Tail(s), c) IN IF k = 0 THEN 0 ELSE k + 1

\* s.split(" ", 1)[1] for an s that contains a space
AfterFirstSpace(s) == Drop(s, IndexOf(s, " "))

\* str(n) for n >= 0
RECURSIVE Dec(_)
Dec(n) ==
    LET d == <<"0", "1", "2", "3", "4", "5", "6", "7", "8", "9">>[(n % 10) + 1]
    IN  IF n < 10 THEN <<d>> ELSE Dec(n \div 10) \o <<d>>

\* format(n, "05d"): zero-padded to a width of at least 5, never truncated
RECURSIVE ZeroPad(_, _)
ZeroPad(s, w) == IF Len(s) >= w THEN s ELSE ZeroPad(<<"0">> \o s, w)

Fmt05d(n) == ZeroPad(Dec(n), 5)

----------------------------------------------------------------------------
(* Configuration read at import.                                           *)

\* app.py:18, the default of APP_NAME
APP_NAME == <<"ZP WhatsApp Bot">>

\* app.py:46-78; None is the string "None", a client is named by its key
build_ai_client(env) ==
    IF ~env.openai THEN [provider |-> "None", client |-> "None"]
    ELSE IF env.LLM_PROVIDER = "groq" /\ env.GROQ_API_KEY # ""
         THEN [provider |-> "groq", client |-> env.GROQ_API_KEY]
    ELSE IF env.LLM_PROVIDER = "openai" /\ env.OPENAI_API_KEY # ""
         THEN [provider |-> "openai", client |-> env.OPENAI_API_KEY]
    ELSE IF env.GROQ_API_KEY # ""
         THEN [provider |-> "groq", client |-> env.GROQ_API_KEY]
    ELSE IF env.OPENAI_API_KEY # ""
         THEN [provider |-> "openai", client |-> env.OPENAI_API_KEY]
    ELSE [provider |-> "None", client |-> "None"]

\* the deployments examined: ADMIN_PASSCODE (the default "1234" of
\* app.py:21 and two passcodes with letters) and the environment of the AI
\* client: [openai |-> the openai package imports, LLM_PROVIDER,
\* GROQ_API_KEY, OPENAI_API_KEY], "" for an unset variable
Deployments ==
    { [pass |-> <<"1", "2", "3", "4">>,
       env |-> [openai |-> TRUE, LLM_PROVIDER |-> "",
                GROQ_API_KEY |-> "", OPENAI_API_KEY |-> ""]],
      [pass |-> <<"a", "b">>,
       env |-> [openai |-> TRUE, LLM_PROVIDER |-> "",
                GROQ_API_KEY |-> "gk", OPENAI_API_KEY |-> "ok"]],
      [pass |-> <<"A", "b">>,
       env |-> [openai |-> TRUE, LLM_PROVIDER |-> "openai",
                GROQ_API_KEY |-> "gk", OPENAI_API_KEY |-> "ok"]] }

----------------------------------------------------------------------------
(* The fixed reply texts.                                                  *)

\* app.py:103-113
small_menu ==
    <<"*">> \o APP_NAME \o
    <<"*\nType a number or keyword:\n1) Schemes & Eligibility\n2) Lodge a grievance\n3) Check application status\n4) Contact / Office hours\n5) Help (commands)\n_Tip: send 'menu' anytime._">>

\* app.py:115-125
help_text ==
    <<"Commands:\n- menu\n- schemes\n- status <ID>\n- grievance\n- stop\n- admin <pass> ping|stats|reset\nFor general questions, reply in English/Marathi/Hindi.">>

\* app.py:127-135
schemes_text ==
    <<"*Schemes (demo)*\n- PMAY-G\n- JJM\n- SHG\n- MGNREGS\n_Reply with 'eligibility <scheme> <your details>' for a quick check (demo)._">>

\* app.py:137-144
contact_text ==
    <<"*Contact (demo)*\n- Zilla Parishad Helpline: 1800-000-000\n- Office hours: Mon-Fri 10:30-17:30\n- Email: help@zp.example.in">>

\* app.py:180-186
grievance_help ==
    <<"*Grievance (demo)*\nReply in this format:\n'grievance <name> <village> <issue>'\nYou'll get a ticket ID back.">>

\* app.py:189
status_help == <<"Send: 'status <APPLICATION_ID>'\nExample: 'status PMAY123'">>

\* app.py:208
grievance_format == <<"Please include details: 'grievance <name> <village> <issue>'">>

\* app.py:212-215
ticket_reply(ticket) ==
    <<"Thanks. Ticket *">> \o ticket \o
    <<"* created (demo).\nYou'll receive an update after initial triage.">>

\* app.py:222
stop_reply == <<"Session cleared. Send 'menu' to start again.">>

\* app.py:159
admin_usage == <<"Usage: admin <passcode> <ping|stats|reset>">>

\* app.py:161
admin_invalid == <<"Admin: invalid passcode.">>

\* app.py:164
admin_pong == <<"pong">>

\* app.py:166
admin_stats(n) == <<"Sessions: ">> \o Dec(n)

\* app.py:169
admin_cleared == <<"All sessions cleared.">>

\* app.py:170
admin_unknown == <<"Unknown admin command.">>

\* app.py:278
fallback_text == <<"I didn't catch that. Here's the menu:\n\n">> \o small_menu

\* app.py:147-151, the demo table
fake ==
    { [id |-> <<"P", "M", "A", "Y", "1", "2", "3">>,
       status |-> "Under review", note |-> "Verification within 7 days"],
      [id |-> <<"J", "J", "M", "4", "5", "6">>,
       status |-> "Approved", note |-> "Connection expected in 30 days"],
      [id |-> <<"S", "H", "G", "7", "8", "9">>,
       status |-> "Pending docs", note |-> "Please submit bank passbook copy"] }

\* app.py:146-155
status_lookup(app_id) ==
    IF \E e \in fake : e.id = upper(app_id)
    THEN LET st == CHOOSE e \in fake : e.id = upper(app_id)
         IN  <<"*Status for ">> \o app_id \o <<":* ", st.status, "\nNote: ", st.note>>
    ELSE <<"No record found for *">> \o app_id \o <<"*. Check the ID and try again.">>

----------------------------------------------------------------------------
(* The memory: m = [S |-> the SESSIONS dict, H |-> the heap].              *)

\* Optional[str]
None == [some |-> FALSE, val |-> <<>>]

Some(s) == [some |-> TRUE, val |-> s]

\* 'not msg': None and the empty string are falsy
Falsy(o) == ~o.some \/ o.val = <<>>

\* the dict d with d[k] = v set
DictSet(d, k, v) ==
    [x \in DOMAIN d \cup {k} |-> IF x = k THEN v ELSE d[x]]

\* DictPop with the key left in place
DictPop_keep(d, k) == d

\* the dict d without the key k, as dict.pop(k, None) leaves it
DictPop(d, k) == [x \in DOMAIN d \ {k} |-> d[x]]

\* a fresh object id
NewId(m) == CHOOSE o \in 1..(Cardinality(DOMAIN m.H) + 1) : o \notin DOMAIN m.H

\* app.py:94, the membership test of session_for
session_missing(m, wa_from) == wa_from \notin DOMAIN m.S

\* app.py:95-100, the insert of session_for; now is time.time()
session_insert(m, wa_from, now) ==
    LET o == NewId(m)
    IN  [S |-> DictSet(m.S, wa_from, o),
         H |-> DictSet(m.H, o, [created_at |-> now,
                                context |-> <<>>,
                                last_intent |-> "None",
                                history |-> <<>>])]

\* app.py:93-101 run without interruption: [m, sess]
session_for(m, wa_from, now) ==
    LET m1 == IF session_missing(m, wa_from)
              THEN session_insert(m, wa_from, now)
              ELSE m
    IN  [m |-> m1, sess |-> m1.S[wa_from]]

\* sess[k] = v
SetField(m, sess, k, v) == [m EXCEPT !.H[sess] = DictSet(@, k, v)]

\* set_last_intent with the assignment left out
set_last_intent_skip(m, sess, tag) == m

\* sess["last_intent"] = tag
set_last_intent(m, sess, tag) == SetField(m, sess, "last_intent", tag)

\* sess["history"].append((role, text))
history_append(m, sess, role, text) ==
    [m EXCEPT !.H[sess].history = Append(@, <<role, text>>)]

\* sess["context"]["last_ticket"] = ticket
set_last_ticket(m, sess, ticket) ==
    [m EXCEPT !.H[sess].context = DictSet(@, "last_ticket", ticket)]

\* sess_id for a session whose id was never recorded
sess_id_absent(m, sess) == ""

\* sess.get("id", "")
sess_id(m, sess) ==
    IF "id" \in DOMAIN m.H[sess] THEN m.H[sess].id ELSE ""

----------------------------------------------------------------------------
(* Admin operations and the intent router.                                 *)

\* app.py:157-170: [msg, m]
admin_ops(parts, m, passcode) ==
    IF Len(parts) < 3 THEN [msg |-> admin_usage, m |-> m]
    ELSE IF parts[2] # passcode THEN [msg |-> admin_invalid, m |-> m]
    ELSE IF parts[3] = <<"p", "i", "n", "g">> THEN [msg |-> admin_pong, m |-> m]
    ELSE IF parts[3] = <<"s", "t", "a", "t", "s">>
         THEN [msg |-> admin_stats(Cardinality(DOMAIN m.S)), m |-> m]
    ELSE IF parts[3] = <<"r", "e", "s", "e", "t">>
         THEN [msg |-> admin_cleared, m |-> [m EXCEPT !.S = <<>>]]
    ELSE [msg |-> admin_unknown, m |-> m]

\* app.py:209, the ticket made at time now
make_ticket(now) == <<"G", "R", "V">> \o Fmt05d(now % 100000)

\* grievance_payload cut out of the normalized text
grievance_payload_normalized(text) == strip(Drop(normalize(text), 10))

\* app.py:206
grievance_payload(text) == strip(Drop(strip(text), 10))

\* app.py:175-198, the trigger sets of the exact-match rules
SchemesWords ==
    { <<"1">>, <<"s", "c", "h", "e", "m", "e", "s">>,
      <<"s", "c", "h", "e", "m", "e">>, <<"y", "o", "j", "a", "n", "a">> }

GrievanceWords ==
    { <<"2">>, <<"g", "r", "i", "e", "v", "a", "n", "c", "e">>,
      <<"c", "o", "m", "p", "l", "a", "i", "n", "t">> }

StatusWords == { <<"3">>, <<"s", "t", "a", "t", "u", "s">> }

ContactWords == { <<"4">>, <<"c", "o", "n", "t", "a", "c", "t">> }

HelpWords == { <<"5">>, <<"h", "e", "l", "p">> }

\* the two Devanagari greetings are spelt by their code points
MenuWords ==
    { <<"m", "e", "n", "u">>, <<"s", "t", "a", "r", "t">>, <<"h", "i">>,
      <<"h", "e", "l", "l", "o">>, <<"n", "a", "m", "a", "s", "t", "e">>,
      <<"U+0928", "U+092E", "U+0938", "U+094D", "U+0924", "U+0947">>,
      <<"U+0928", "U+092E", "U+0938", "U+094D", "U+0915", "U+093E", "U+0930">> }

\* app.py:172-224: [msg |-> Optional[str], m]; now is the time.time() of
\* line 209
trivial_intents(text, sess, m, passcode, now) ==
    LET t == normalize(text)
    IN  IF t \in SchemesWords
        THEN [msg |-> Some(schemes_text), m |-> set_last_intent(m, sess, "schemes")]
        ELSE IF t \in GrievanceWords
        THEN [msg |-> Some(grievance_help), m |-> set_last_intent(m, sess, "grievance")]
        ELSE IF t \in StatusWords
        THEN [msg |-> Some(status_help), m |-> set_last_intent(m, sess, "status")]
        ELSE IF t \in ContactWords
        THEN [msg |-> Some(contact_text), m |-> set_last_intent(m, sess, "contact")]
        ELSE IF t \in HelpWords
        THEN [msg |-> Some(help_text), m |-> set_last_intent(m, sess, "help")]
        ELSE IF t \in MenuWords
        THEN [msg |-> Some(small_menu), m |-> set_last_intent(m, sess, "menu")]
        ELSE IF startswith(t, <<"s", "t", "a", "t", "u", "s", " ">>)
        THEN [msg |-> Some(status_lookup(strip(AfterFirstSpace(t)))),
              m |-> set_last_intent(m, sess, "status_lookup")]
        ELSE IF startswith(t, <<"g", "r", "i", "e", "v", "a", "n", "c", "e", " ">>)
        THEN IF Len(grievance_payload(text)) < 4
             THEN [msg |-> Some(grievance_format), m |-> m]
             ELSE [msg |-> Some(ticket_reply(make_ticket(now))),
                   m |-> set_last_ticket(
                            set_last_intent(m, sess, "grievance_ticket"),
                            sess, make_ticket(now))]
        ELSE IF startswith(t, <<"a", "d", "m", "i", "n", " ">>)
        THEN LET r == admin_ops(split(t), m, passcode)
             IN  [msg |-> Some(r.msg), m |-> r.m]
        ELSE IF t = <<"s", "t", "o", "p">>
        THEN [msg |-> Some(stop_reply),
              m |-> [m EXCEPT !.S = DictPop(@, sess_id(m, sess))]]
        ELSE [msg |-> None, m |-> m]

\* ai_answer without the except clause: a failure of the backend is raised
ai_answer_propagates(user_text, ai, out) ==
    IF ai.client = "None" \/ ai.provider = "None"
    THEN [raised |-> FALSE, val |-> <<>>]
    ELSE IF out.kind = "raise" THEN [raised |-> TRUE, val |-> <<>>]
    ELSE IF out.kind = "none" THEN [raised |-> FALSE, val |-> strip(<<>>)]
    ELSE [raised |-> FALSE, val |-> strip(out.text)]

\* app.py:226-255; out is what the chat-completion call does: it raises
\* (kind "raise") or returns a message whose content is None (kind "none")
\* or a string (kind "text").  [raised, val]: the source catches every
\* Exception, so nothing is raised to the caller
ai_answer(user_text, ai, out) ==
    IF ai.client = "None" \/ ai.provider = "None"
    THEN [raised |-> FALSE, val |-> <<>>]
    ELSE IF out.kind = "raise" THEN [raised |-> FALSE, val |-> <<>>]
    ELSE IF out.kind = "none" THEN [raised |-> FALSE, val |-> strip(<<>>)]
    ELSE [raised |-> FALSE, val |-> strip(out.text)]

\* app.py:88-91: the bodies of the <Message> elements of the TwiML reply
reply_text(body) == Append(<<>>, body)

----------------------------------------------------------------------------
(* The inputs: senders, message bodies and what the AI backend does.       *)

\* the values of the From field; "" is a request without one
Senders == {"A", "B"}

m_menu == <<"m", "e", "n", "u">>

m_MENU == <<" ", " ", "M", "E", "N", "U", " ", " ">>

m_Scheme == <<"S", "c", "h", "e", "m", "e">>

m_two == <<"2">>

m_status == <<"s", "t", "a", "t", "u", "s">>

m_four == <<"4">>

m_HELP == <<"H", "E", "L", "P">>

m_status_PMAY ==
    <<"s", "t", "a", "t", "u", "s", " ", "P", "M", "A", "Y", "1", "2", "3">>

m_status_pmay ==
    <<"S", "t", "a", "t", "u", "s", " ", " ", "p", "m", "a", "y", "1", "2",
    "3">>

m_status_UNKNOWN1 ==
    <<"s", "t", "a", "t", "u", "s", " ", "U", "N", "K", "N", "O", "W", "N",
    "1">>

m_status_x9 == <<"s", "t", "a", "t", "u", "s", " ", "x", "9">>

m_grv_ab == <<"g", "r", "i", "e", "v", "a", "n", "c", "e", " ", "a", "b">>

m_grv_long ==
    <<"g", "r", "i", "e", "v", "a", "n", "c", "e", " ", "R", "a", "m", " ",
    "r", "o", "a", "d">>

m_grv_gap ==
    <<"G", "r", "i", "e", "v", "a", "n", "c", "e", "\t", "a", " ", " ", "b">>

m_admin_ping ==
    <<"a", "d", "m", "i", "n", " ", "1", "2", "3", "4", " ", "p", "i", "n",
    "g">>

m_admin_stats ==
    <<"a", "d", "m", "i", "n", " ", "1", "2", "3", "4", " ", "s", "t", "a",
    "t", "s">>

m_admin_reset ==
    <<"a", "d", "m", "i", "n", " ", "1", "2", "3", "4", " ", "r", "e", "s",
    "e", "t">>

m_admin_nuke ==
    <<"a", "d", "m", "i", "n", " ", "1", "2", "3", "4", " ", "n", "u", "k",
    "e">>

m_admin_two == <<"a", "d", "m", "i", "n", " ", "1", "2", "3", "4">>

m_admin_wrong ==
    <<"a", "d", "m", "i", "n", " ", "9", "9", "9", "9", " ", "r", "e", "s",
    "e", "t">>

m_admin_ab_stats ==
    <<"a", "d", "m", "i", "n", " ", "a", "b", " ", "s", "t", "a", "t", "s">>

m_admin_AB_reset ==
    <<"a", "d", "m", "i", "n", " ", "A", "B", " ", "r", "e", "s", "e", "t">>

m_admin_Ab_ping ==
    <<"a", "d", "m", "i", "n", " ", "A", "b", " ", "p", "i", "n", "g">>

m_STOP == <<" ", "S", "T", "O", "P", "\n">>

m_what == <<"w", "h", "a", "t">>

m_empty == <<>>

\* the bodies sent in Spec
Msgs ==
    { m_menu, m_STOP, m_grv_long, m_admin_reset, m_admin_AB_reset }

\* the bodies sent in SpecRouter
RouterMsgs ==
    { m_Scheme, m_two, m_status, m_four, m_HELP, m_MENU,
      m_status_PMAY, m_status_pmay, m_status_UNKNOWN1, m_status_x9,
      m_grv_ab, m_grv_long, m_grv_gap,
      m_admin_ping, m_admin_stats, m_admin_reset, m_admin_nuke,
      m_admin_two, m_admin_wrong, m_admin_ab_stats, m_admin_AB_reset,
      m_admin_Ab_ping, m_STOP, m_what, m_empty }

\* the bodies sent in SpecConc
ConcMsgs == { m_menu, m_grv_long, m_STOP }

\* what AI_CLIENT.chat.completions.create does: it raises, or returns a
\* message whose content is None or a string
AIOutcomes ==
    { [kind |-> "raise", text |-> <<>>],
      [kind |-> "none",  text |-> <<>>],
      [kind |-> "text",  text |-> <<>>],
      [kind |-> "text",  text |-> <<" ", "\n">>],
      [kind |-> "text",  text |-> <<" ", "O", "k", ".", "\n">>] }

\* the adapter was not called, or it has no client to call
NoOutcome == [kind |-> "-", text |-> <<>>]

----------------------------------------------------------------------------
(* whatsapp_webhook, app.py:263-281.                                       *)

\* the memory of a state
Mem == [S |-> SESSIONS, H |-> heap]

\* the heap without the dicts that neither the store nor a request holds
Collect(m, roots) ==
    [m EXCEPT !.H = [o \in (DOMAIN m.H) \cap ({m.S[k] : k \in DOMAIN m.S} \cup roots)
                        |-> m.H[o]]]

\* app.py:275-278: the reply chosen after the router returned r; ai is the
\* result of ai_answer when it is called
choose_reply(r, ai) ==
    LET msg1 == IF Falsy(r) THEN Some(ai.val) ELSE r
    IN  IF Falsy(msg1) THEN fallback_text ELSE msg1.val

\* app.py:270-281 run without interruption on memory m at time now, for a
\* request with a sender: [m, status, messages, ai_called, sess], where
\* sess is the dict the local variable sess names when the request ends
handle(m, wa_from, body, now, passcode, ai, out) ==
    LET s    == session_for(m, wa_from, now)
        sess == s.sess
        m1   == SetField(s.m, sess, "id", wa_from)
        m2   == history_append(m1, sess, "user", body)
        r    == trivial_intents(body, sess, m2, passcode, now)
        call == Falsy(r.msg)
        a    == ai_answer(body, ai, out)
        msg  == choose_reply(r.msg, a)
        m3   == history_append(r.m, sess, "bot", msg)
    IN  IF call /\ a.raised
        THEN [m |-> Collect(r.m, {}), status |-> 500, messages |-> <<>>,
              ai_called |-> call, sess |-> r.m.H[sess]]
        ELSE [m |-> Collect(m3, {}), status |-> 200,
              messages |-> reply_text(msg),
              ai_called |-> call, sess |-> m3.H[sess]]

\* whether ai_answer has a backend to call
Configured(ai) == ai.client # "None" /\ ai.provider # "None"

\* one handled request, as the log keeps it: the request, the response,
\* whether ai_answer was called and what the backend did, and last_intent
\* and context of the request's sess when it ended
Entry(wa_from, body, h, out) ==
    [from |-> wa_from, body |-> body, status |-> h.status,
     messages |-> h.messages, ai_called |-> h.ai_called,
     ai_out |-> IF h.ai_called /\ Configured(AI) THEN out ELSE NoOutcome,
     last_intent |-> h.sess.last_intent, context |-> h.sess.context]

\* what the backend may do during this request: something only when the
\* adapter is called and has a backend
BackendOutcomes(wa_from, body) ==
    IF /\ Configured(AI)
       /\ handle(Mem, wa_from, body, clock, ADMIN_PASSCODE, AI, NoOutcome).ai_called
    THEN AIOutcomes
    ELSE {NoOutcome}

\* POST /whatsapp with a sender, handled from start to end
Webhook(wa_from, body) ==
    /\ \A i \in DOMAIN th : th[i].pc = "idle"
    /\ \E out \in BackendOutcomes(wa_from, body) :
         LET h == handle(Mem, wa_from, body, clock, ADMIN_PASSCODE, AI, out)
         IN  /\ SESSIONS' = h.m.S
             /\ heap' = h.m.H
             /\ log' = Append(log, Entry(wa_from, body, h, out))
    /\ UNCHANGED <<clock, ADMIN_PASSCODE, AI, th>>

\* POST /whatsapp without a sender: app.py:267-268, abort(400)
WebhookNoSender ==
    /\ \A i \in DOMAIN th : th[i].pc = "idle"
    /\ log' = Append(log, [from |-> "", body |-> <<>>, status |-> 400,
                           messages |-> <<>>, ai_called |-> FALSE,
                           ai_out |-> NoOutcome, last_intent |-> "None",
                           context |-> <<>>])
    /\ UNCHANGED <<SESSIONS, heap, clock, ADMIN_PASSCODE, AI, th>>

\* time passes
Tick ==
    /\ clock < T0 + MaxTick
    /\ clock' = clock + 1
    /\ UNCHANGED <<SESSIONS, heap, ADMIN_PASSCODE, AI, log, th>>

\* the request threads
Threads == {1, 2}

IdleThread == [pc |-> "idle", from |-> "", body |-> <<>>, sess |-> 0,
               msg |-> None, status |-> 0, messages |-> <<>>]

\* the process after import: an empty store (app.py:39), the passcode and
\* the AI client of one deployment
Init ==
    /\ SESSIONS = <<>>
    /\ heap = <<>>
    /\ clock = T0
    /\ \E d \in Deployments :
         /\ ADMIN_PASSCODE = d.pass
         /\ AI = build_ai_client(d.env)
    /\ log = <<>>
    /\ th = [i \in Threads |-> IdleThread]

\* requests handled one after the other, from two senders
Next ==
    \/ \E wa_from \in Senders, body \in Msgs :
         Len(log) < MaxReq /\ Webhook(wa_from, body)
    \/ Len(log) < MaxReq /\ WebhookNoSender
    \/ Tick

Spec == Init /\ [][Next]_vars

\* requests handled one after the other, from one sender, over every kind
\* of message
NextRouter ==
    \/ \E body \in RouterMsgs :
         Len(log) < MaxRouterReq /\ Webhook("A", body)
    \/ Len(log) < MaxRouterReq /\ WebhookNoSender
    \/ Tick

SpecRouter == Init /\ [][NextRouter]_vars

----------------------------------------------------------------------------
(* The threaded server: app.run (app.py:286) handles each request in its   *)
(* own thread, and the statements of two requests interleave.  A thread    *)
(* handles one request; th[i].sess is its local variable sess.             *)

\* the memory after thread i made it m and itself t
Step(i, m, t) ==
    /\ SESSIONS' = m.S
    /\ heap' = m.H
    /\ th' = [th EXCEPT ![i] = t]
    /\ UNCHANGED <<clock, ADMIN_PASSCODE, AI, log>>

\* app.py:265-266 with a sender
Receive(i, wa_from, body) ==
    /\ th[i].pc = "idle"
    /\ Step(i, Mem, [th[i] EXCEPT !.pc = "sf_test", !.from = wa_from,
                                  !.body = body])

\* app.py:267-268 without a sender: abort(400)
ReceiveNoSender(i) ==
    /\ th[i].pc = "idle"
    /\ Step(i, Mem, [th[i] EXCEPT !.pc = "done", !.status = 400])

\* app.py:94
SfTest(i) ==
    /\ th[i].pc = "sf_test"
    /\ Step(i, Mem, [th[i] EXCEPT !.pc = IF session_missing(Mem, th[i].from)
                                         THEN "sf_insert"
                                         ELSE "sf_return"])

\* app.py:95-100
SfInsert(i) ==
    /\ th[i].pc = "sf_insert"
    /\ Step(i, session_insert(Mem, th[i].from, clock),
            [th[i] EXCEPT !.pc = "sf_return"])

\* app.py:101 and 270; SESSIONS[wa_from] raises KeyError when another
\* request removed the key, and the request ends with status 500
SfReturn(i) ==
    /\ th[i].pc = "sf_return"
    /\ IF th[i].from \in DOMAIN SESSIONS
       THEN Step(i, Mem, [th[i] EXCEPT !.pc = "set_id",
                                       !.sess = SESSIONS[th[i].from]])
       ELSE Step(i, Mem, [th[i] EXCEPT !.pc = "done", !.status = 500])

\* app.py:271
SetId(i) ==
    /\ th[i].pc = "set_id"
    /\ Step(i, SetField(Mem, th[i].sess, "id", th[i].from),
            [th[i] EXCEPT !.pc = "append_user"])

\* app.py:272
AppendUser(i) ==
    /\ th[i].pc = "append_user"
    /\ Step(i, history_append(Mem, th[i].sess, "user", th[i].body),
            [th[i] EXCEPT !.pc = "route"])

\* app.py:274
Route(i) ==
    /\ th[i].pc = "route"
    /\ LET r == trivial_intents(th[i].body, th[i].sess, Mem, ADMIN_PASSCODE, clock)
       IN  Step(i, r.m, [th[i] EXCEPT !.pc = "reply", !.msg = r.msg])

\* app.py:275-278
ChooseReply(i) ==
    /\ th[i].pc = "reply"
    /\ \E out \in (IF Configured(AI) /\ Falsy(th[i].msg)
                   THEN AIOutcomes ELSE {NoOutcome}) :
         LET a == ai_answer(th[i].body, AI, out)
         IN  IF Falsy(th[i].msg) /\ a.raised
             THEN Step(i, Mem, [th[i] EXCEPT !.pc = "done", !.status = 500])
             ELSE Step(i, Mem, [th[i] EXCEPT !.pc = "append_bot",
                                  !.msg = Some(choose_reply(th[i].msg, a))])

\* app.py:280-281
AppendBot(i) ==
    /\ th[i].pc = "append_bot"
    /\ Step(i, history_append(Mem, th[i].sess, "bot", th[i].msg.val),
            [th[i] EXCEPT !.pc = "done", !.status = 200,
                          !.messages = reply_text(th[i].msg.val)])

\* time passes while requests are handled
TickConc ==
    /\ clock < T0 + MaxTick
    /\ clock' = clock + 1
    /\ UNCHANGED <<SESSIONS, heap, ADMIN_PASSCODE, AI, log, th>>

NextConc ==
    \/ \E i \in Threads, wa_from \in Senders, body \in ConcMsgs :
         Receive(i, wa_from, body)
    \/ \E i \in Threads : ReceiveNoSender(i)
    \/ \E i \in Threads : SfTest(i)
    \/ \E i \in Threads : SfInsert(i)
    \/ \E i \in Threads : SfReturn(i)
    \/ \E i \in Threads : SetId(i)
    \/ \E i \in Threads : AppendUser(i)
    \/ \E i \in Threads : Route(i)
    \/ \E i \in Threads : ChooseReply(i)
    \/ \E i \in Threads : AppendBot(i)
    \/ TickConc

SpecConc == Init /\ [][NextConc]_vars

----------------------------------------------------------------------------
(* What the properties speak of.                                           *)

\* a request was handled in this step, and its log entry
Handled == log' # log

New == log'[Len(log')]

\* the session of sender S in the store
HasSession(S) == S \in DOMAIN SESSIONS

SessionOf(S) == heap[SESSIONS[S]]

\* what an observer of the store sees of the session of S
SessView(S) ==
    IF HasSession(S) THEN [present |-> TRUE, d |-> SessionOf(S)]
    ELSE [present |-> FALSE]

\* last_intent and context of the session a request of S starts from: the
\* stored one, or a new one
BeforeIntent(S) == IF HasSession(S) THEN SessionOf(S).last_intent ELSE "None"

BeforeContext(S) == IF HasSession(S) THEN SessionOf(S).context ELSE <<>>

\* the bodies that are 'stop' and 'menu' in some letter case and spacing
StopBodies == {m_STOP}

MenuBodies == {m_menu, m_MENU}

\* the rule of the table of section 4.3 that a body matches first, 0 for
\* none, read off the table for every body sent
RuleOf(body) ==
    CASE body \in {m_Scheme} -> 1
      [] body \in {m_two} -> 2
      [] body \in {m_status} -> 3
      [] body \in {m_four} -> 4
      [] body \in {m_HELP} -> 5
      [] body \in {m_menu, m_MENU} -> 6
      [] body \in {m_status_PMAY, m_status_pmay, m_status_UNKNOWN1,
                   m_status_x9} -> 7
      [] body \in {m_grv_ab, m_grv_long, m_grv_gap} -> 8
      [] body \in {m_admin_ping, m_admin_stats, m_admin_reset, m_admin_nuke,
                   m_admin_two, m_admin_wrong, m_admin_ab_stats,
                   m_admin_AB_reset, m_admin_Ab_ping} -> 9
      [] body \in {m_STOP} -> 10
      [] OTHER -> 0

\* the tags of rules 1 to 8 in that table
Tag ==
    <<"schemes", "grievance", "status", "contact", "help", "menu",
      "status_lookup", "grievance_ticket">>

\* the grievance payload as the sender typed it, stripped
PayloadOf(body) ==
    CASE body = m_grv_ab -> <<"a", "b">>
      [] body = m_grv_long -> <<"R", "a", "m", " ", "r", "o", "a", "d">>
      [] body = m_grv_gap -> <<"a", " ", " ", "b">>
      [] OTHER -> <<>>

\* the words of a body as the sender typed them
Typed(body) == split(body)

W_admin == <<"a", "d", "m", "i", "n">>

W_ping == <<"p", "i", "n", "g">>

W_stats == <<"s", "t", "a", "t", "s">>

W_reset == <<"r", "e", "s", "e", "t">>

\* the body is 'admin <the configured passcode> cmd', typed exactly
TypedAdmin(body, cmd) ==
    /\ Len(Typed(body)) = 3
    /\ Typed(body)[1] = W_admin
    /\ Typed(body)[2] = ADMIN_PASSCODE
    /\ Typed(body)[3] = cmd

\* the reply says that an admin command was executed
Executed(e) ==
    \/ e.messages = <<admin_pong>>
    \/ e.messages = <<admin_cleared>>
    \/ e.messages # <<>> /\ e.messages[1][1] = "Sessions: "

\* the reset was executed
ResetDone(e) == e.status = 200 /\ e.messages = <<admin_cleared>>

\* sub occurs in s
Contains(s, sub) ==
    \E k \in 1..(Len(s) - Len(sub) + 1) : SubSeq(s, k, k + Len(sub) - 1) = sub

\* the place of the last message of S in the log, or 0
LastOf(S) ==
    IF \E i \in DOMAIN log : log[i].from = S
    THEN CHOOSE i \in DOMAIN log :
            log[i].from = S /\ \A j \in DOMAIN log : log[j].from = S => j <= i
    ELSE 0

DigitChars == <<"0", "1", "2", "3", "4", "5", "6", "7", "8", "9">>

IsDigit(c) == \E k \in 1..10 : DigitChars[k] = c

\* the number a string of digits writes
RECURSIVE NumVal(_)
NumVal(s) ==
    IF s = <<>> THEN 0
    ELSE NumVal(SubSeq(s, 1, Len(s) - 1)) * 10
         + (CHOOSE k \in 1..10 : DigitChars[k] = s[Len(s)]) - 1

\* tk is GRV and five decimal digits that write now modulo 100000
IsTicketAt(tk, now) ==
    /\ Len(tk) = 8
    /\ SubSeq(tk, 1, 3) = <<"G", "R", "V">>
    /\ \A k \in 4..8 : IsDigit(tk[k])
    /\ NumVal(SubSeq(tk, 4, 8)) = now % 100000

----------------------------------------------------------------------------
(* The claims.                                                             *)

\* C1: after any sequence of handled requests, a sender has a session in
\* the store exactly when it has sent a message and neither a 'stop' of its
\* own as its latest message nor an executed admin reset of any sender has
\* been handled at or after its latest message; a request without a sender
\* creates no session.
C1_SessionExists ==
    /\ "" \notin DOMAIN SESSIONS
    /\ \A S \in Senders :
         HasSession(S) <=>
            /\ LastOf(S) > 0
            /\ log[LastOf(S)].body \notin StopBodies
            /\ \A j \in LastOf(S)..Len(log) : ~ResetDone(log[j])

\* A sent a message, B sent one, then A sent 'stop': only B has a session
C1_Witness ==
    /\ Len(log) = 3
    /\ log[1].from = "A" /\ log[2].from = "B" /\ log[3].from = "A"
    /\ log[3].body \in StopBodies
    /\ DOMAIN SESSIONS = {"B"}

\* C3: a 'stop' of S, in any letter case and spacing, leaves S without a
\* session in the store, whatever history, context and last intent it had;
\* and when the next message of S is 'menu', it is served from a session
\* created by that request: S had none before it, the history holds the
\* two entries of that request only, the context is empty and created_at
\* is the time of that request.
C3_StopFreshStart ==
    [][Handled /\ New.from \in Senders =>
        /\ New.body \in StopBodies => New.from \notin DOMAIN SESSIONS'
        /\ ( /\ New.body \in MenuBodies
             /\ LastOf(New.from) > 0
             /\ log[LastOf(New.from)].body \in StopBodies )
           => /\ New.from \notin DOMAIN SESSIONS
              /\ New.from \in DOMAIN SESSIONS'
              /\ heap'[SESSIONS'[New.from]].history =
                    << <<"user", New.body>>, <<"bot", small_menu>> >>
              /\ heap'[SESSIONS'[New.from]].context = <<>>
              /\ heap'[SESSIONS'[New.from]].created_at = clock'
    ]_vars

\* A filed a grievance (context and last intent set), sent 'stop', time
\* passed, and A sent 'menu': the session is one second younger
C3_Witness ==
    /\ Len(log) = 3
    /\ \A i \in 1..3 : log[i].from = "A"
    /\ log[1].body = m_grv_long /\ "last_ticket" \in DOMAIN log[1].context
    /\ log[2].body = m_STOP
    /\ log[3].body = m_menu
    /\ HasSession("A")
    /\ SessionOf("A").created_at = T0 + 1
    /\ Len(SessionOf("A").history) = 2

\* C7: a request of sender A that is not 'admin <passcode> reset' with the
\* configured passcode typed exactly leaves the session of every other
\* sender B as it was: in the store or not, and with the same created_at,
\* context, last_intent and history.
C7_Isolation ==
    [][Handled /\ New.from \in Senders /\ ~TypedAdmin(New.body, W_reset) =>
        \A B \in Senders \ {New.from} : SessView(B)' = SessView(B)
    ]_vars

\* the isolation that the code does give: a request whose reply is not
\* that of an executed reset leaves the sessions of the other senders as
\* they were
IsolationUnlessResetDone ==
    [][Handled /\ New.from \in Senders /\ ~ResetDone(New) =>
        \A B \in Senders \ {New.from} : SessView(B)' = SessView(B)
    ]_vars

\* C2: 'admin <passcode> stats' with the configured passcode is answered
\* with the number of sessions in the store, and when the message handled
\* just before it was 'admin <passcode> reset' with the configured
\* passcode, with a count of 0.
C2_StatsAfterReset ==
    \A i \in DOMAIN log :
        TypedAdmin(log[i].body, W_stats) =>
            /\ i = Len(log) =>
                 log[i].messages =
                    << <<"Sessions: ">> \o Dec(Cardinality(DOMAIN SESSIONS)) >>
            /\ (i > 1 /\ TypedAdmin(log[i - 1].body, W_reset)) =>
                 log[i].messages = << <<"Sessions: ", "0">> >>

\* C4 as claimed: whenever a rule of the table matches, last_intent of the
\* session is the tag of that rule when the router returns.
C4_IntentIsTag ==
    [][Handled /\ New.from \in Senders /\ RuleOf(New.body) \in 1..8 =>
        New.last_intent = Tag[RuleOf(New.body)]
    ]_vars

\* C4 as amended: when rule 1 to 7 matches, or rule 8 with a payload of 4
\* or more characters, last_intent of the session is the tag of that rule
\* when the router returns; rule 8 with a shorter payload, rule 9 and rule
\* 10 return their reply and leave last_intent as it was.
C4_IntentIsTagWhereSet ==
    [][Handled /\ New.from \in Senders =>
        /\ RuleOf(New.body) # 0 => New.status = 200 /\ New.messages[1] # <<>>
        /\ RuleOf(New.body) \in 1..7 =>
             New.last_intent = Tag[RuleOf(New.body)]
        /\ (RuleOf(New.body) = 8 /\ Len(PayloadOf(New.body)) >= 4) =>
             New.last_intent = Tag[8]
        /\ (RuleOf(New.body) = 8 /\ Len(PayloadOf(New.body)) < 4) =>
             New.last_intent = BeforeIntent(New.from)
        /\ RuleOf(New.body) \in {9, 10} =>
             New.last_intent = BeforeIntent(New.from)
    ]_vars

\* after ' MENU ' the short grievance kept last_intent = menu, and after a
\* status lookup the help request made it help
C4_Witness ==
    /\ Len(log) = 2
    /\ log[1].body = m_MENU /\ log[1].last_intent = "menu"
    /\ log[2].body = m_grv_ab /\ log[2].last_intent = "menu"
    /\ log[2].messages = <<grievance_format>>

\* C5: 'admin <p> <cmd>' with fewer than three words is answered with the
\* usage text; with three or more, the command ping, stats or reset is
\* executed exactly when p as typed equals the configured passcode, and
\* otherwise the reply is the invalid-passcode message and no session
\* leaves the store.
C5_PasscodeExact ==
    [][Handled /\ New.from \in Senders /\ RuleOf(New.body) = 9 =>
        /\ Len(Typed(New.body)) < 3 => New.messages = <<admin_usage>>
        /\ ( /\ Len(Typed(New.body)) >= 3
             /\ Typed(New.body)[3] \in {W_ping, W_stats, W_reset} )
           => (Executed(New) <=> Typed(New.body)[2] = ADMIN_PASSCODE)
        /\ ( /\ Len(Typed(New.body)) >= 3
             /\ Typed(New.body)[2] # ADMIN_PASSCODE )
           => /\ New.messages = <<admin_invalid>>
              /\ DOMAIN SESSIONS \subseteq DOMAIN SESSIONS'
    ]_vars

\* C8: a request with a sender gets status 200 and one message body; the
\* adapter is called only when no rule matches; and when no rule matches
\* and the adapter has no backend, or its backend raises or answers with
\* None or the empty string, the body is the fallback text.
C8_FallbackChain ==
    \A i \in DOMAIN log :
        log[i].from \in Senders =>
            /\ log[i].status = 200
            /\ Len(log[i].messages) = 1
            /\ log[i].ai_called => RuleOf(log[i].body) = 0
            /\ ( /\ RuleOf(log[i].body) = 0
                 /\ \/ ~Configured(AI)
                    \/ log[i].ai_out.kind \in {"raise", "none"}
                    \/ log[i].ai_out.kind = "text" /\ log[i].ai_out.text = <<>> )
               => log[i].messages = <<fallback_text>>

\* the backend raised on an unmatched message and the reply is the fallback
C8_Witness ==
    /\ Len(log) >= 1
    /\ log[1].body = m_what
    /\ log[1].ai_called
    /\ log[1].ai_out.kind = "raise"
    /\ log[1].messages = <<fallback_text>>

\* C9: 'status <id>' with one of the three demo ids in any letter case is
\* answered with the status and the note of that id and makes last_intent
\* status_lookup; with any other id it is answered with the no-record
\* message, which contains the id as the sender typed it.
C9_StatusLookup ==
    \A i \in DOMAIN log :
        RuleOf(log[i].body) = 7 =>
            LET id == Typed(log[i].body)[2]
                msg == log[i].messages[1]
            IN  /\ log[i].last_intent = "status_lookup"
                /\ IF \E e \in fake : e.id = upper(id)
                   THEN \E e \in fake :
                          /\ e.id = upper(id)
                          /\ \E k \in DOMAIN msg : msg[k] = e.status
                          /\ \E k \in DOMAIN msg : msg[k] = e.note
                   ELSE /\ msg[1] = "No record found for *"
                        /\ Contains(msg, id)

\* C10: 'grievance <payload>' with a payload, as typed and stripped, of
\* fewer than 4 characters is answered with the format help and leaves
\* context and last_intent of the session as they were; with 4 or more it
\* makes last_intent grievance_ticket, stores as context.last_ticket GRV
\* and five digits that write the time in seconds modulo 100000, and the
\* confirmation names that ticket.
C10_Grievance ==
    [][Handled /\ New.from \in Senders /\ RuleOf(New.body) = 8 =>
        IF Len(PayloadOf(New.body)) < 4
        THEN /\ New.messages = <<grievance_format>>
             /\ New.last_intent = BeforeIntent(New.from)
             /\ New.context = BeforeContext(New.from)
             /\ heap'[SESSIONS'[New.from]].context = BeforeContext(New.from)
             /\ heap'[SESSIONS'[New.from]].last_intent = BeforeIntent(New.from)
        ELSE /\ heap'[SESSIONS'[New.from]].last_intent = "grievance_ticket"
             /\ DOMAIN heap'[SESSIONS'[New.from]].context = {"last_ticket"}
             /\ IsTicketAt(heap'[SESSIONS'[New.from]].context.last_ticket, clock')
             /\ Len(New.messages) = 1
             /\ Contains(New.messages[1],
                         heap'[SESSIONS'[New.from]].context.last_ticket)
    ]_vars

\* a ticket was made, the clock wrapped past 99999, and the short
\* grievance left ticket and last_intent alone; and a payload whose four
\* characters include two spaces got a ticket with leading zeros
C10_Witness ==
    /\ Len(log) = 2
    /\ log[1].body = m_grv_gap
    /\ log[1].context = [last_ticket |-> <<"G", "R", "V", "0", "0", "0", "0", "0">>]
    /\ log[2].body = m_grv_ab
    /\ log[2].messages = <<grievance_format>>
    /\ HasSession("A")
    /\ SessionOf("A").context = log[1].context
    /\ SessionOf("A").last_intent = "grievance_ticket"

\* C6: when two requests of one sender, neither a 'stop' nor an admin
\* reset, have both been handled by concurrent threads, the session of the
\* sender in the store holds the user entry and the bot entry of both, and
\* the ticket when one of them filed a grievance.
C6_NoLostUpdate ==
    \A i, j \in Threads :
        ( /\ i # j
          /\ th[i].pc = "done" /\ th[j].pc = "done"
          /\ th[i].status = 200 /\ th[j].status = 200
          /\ th[i].from = th[j].from
          /\ th[i].body \notin StopBodies /\ th[j].body \notin StopBodies )
        => /\ HasSession(th[i].from)
           /\ LET h == SessionOf(th[i].from).history
                  n(e) == Cardinality({k \in DOMAIN h : h[k] = e})
                  w(e) == Cardinality({t \in {i, j} :
                              e \in {<<"user", th[t].body>>,
                                     <<"bot", th[t].messages[1]>>}})
              IN  \A t \in {i, j} :
                     /\ n(<<"user", th[t].body>>) >= w(<<"user", th[t].body>>)
                     /\ n(<<"bot", th[t].messages[1]>>)
                           >= w(<<"bot", th[t].messages[1]>>)
           /\ (\E t \in {i, j} : th[t].body = m_grv_long) =>
                 "last_ticket" \in DOMAIN SessionOf(th[i].from).context

====
